---- MODULE Spec2Model ----
(***************************************************************************)
(* Model of src/src/key/subkey.js: the SubKey entity (key packet plus the  *)
(* binding and revocation signature lists) and its operations verify,      *)
(* getExpirationTime, isRevoked, update and revoke.                         *)
(*                                                                         *)
(* The functions of key/helper.js and the packet classes are not part of   *)
(* src/; they are modelled from sections 4.2-4.7 and 6 of the spec.     *)
(*                                                                         *)
(* JavaScript arrays are mutable objects held by reference, so the two     *)
(* signature lists of an entity are modelled as addresses into a heap of   *)
(* lists: an entity record holds the addresses, heap holds the contents.   *)
(*                                                                         *)
(* verify, getExpirationTime, update and revoke are async functions: a     *)
(* call runs up to an await, and goes on in a later turn of the event      *)
(* loop, after whatever other calls ran in between.  A call in flight is a *)
(* record of calls; one action starts a call and runs it to its first      *)
(* await (or its end), another takes it from one await to the next.        *)
(***************************************************************************)
EXTENDS Integers, Sequences, FiniteSets, TLC

VARIABLES
  ents,   \* slot -> SubKey object (or NoEntity): slot 1 is the entity built
          \* by the constructor, the others are the entities revoke made
  heap,   \* address -> contents of a signature array
  now,    \* the clock: what `new Date()` gives
  calls,  \* call id -> the call in flight under that id (or Idle)
  made,   \* the number of calls made so far
  last    \* the call the last step settled, if it settled one: its name, the
          \* slot it ran on, its date and its outcome

vars == <<ents, heap, now, calls, made, last>>

----------------------------------------------------------------------------
\* Bounds of the model.

\* dates are 0..MaxDate
MaxDate == 3
\* a source entity handed to update carries at most this many signatures
MaxSrcSigs == 2
\* a behaviour makes at most this many calls
MaxCalls == 3

Dates == 0..MaxDate

\* the clock at the first call; it goes up to MaxDate
FirstInstant == MaxDate - 1

\* Date | Infinity: JavaScript's Infinity is larger than every date
Infinity == 2 * MaxDate + 2

\* no object in a slot; null where a signature, a key or a date is expected
NoEntity == [none |-> TRUE]
NullSig == [type |-> "null"]
NullKey == [keyid |-> 0, tag |-> "null"]
NullTime == 0 - 1

Slots == {1, 2, 3}
Addrs == 1..6

\* the ids of the calls in flight: two calls at most are in flight at once
CallIds == {1, 2}

----------------------------------------------------------------------------
\* Key packets.  tag distinguishes the public and the secret subkey packet.

KeyId == {1, 2}
PrimaryKey == [keyid |-> 1, tag |-> "secretKey"]

Fingerprints == {1, 2}
KeyPackets == [fp : Fingerprints, tag : {"publicSubkey", "secretSubkey"}, created : {0}]

\* the key packets of the source entities: both variants of the entity's key,
\* and the secret variant of another key
SrcKeyPackets == { kp \in KeyPackets : kp.fp # 1 => kp.tag = "secretSubkey" }

\* PublicSubkeyPacket#hasSameFingerprintAs
PacketHasSameFingerprintAs(kp, other) == kp.fp = other.fp

----------------------------------------------------------------------------
\* Signature packets.
\*   issuerKeyId      the issuer key id the packet states
\*   signer           the key whose signature over {key, bind} of type `type`
\*                    the packet really is (what verification finds out)
\*   created          creation time
\*   verified         the packet is already marked verified
\*   revoked          the packet's own revoked flag
\*   sigExp           the signature's expiration time (Infinity: none)
\*   keyValidity      key validity period stated by the signature (0: none)

SigRec(t, i, s, c, v, r, x, k) ==
  [type |-> t, issuerKeyId |-> i, signer |-> s, created |-> c, verified |-> v,
   revoked |-> r, sigExp |-> x, keyValidity |-> k]

\* binding signatures a source entity may carry:
\*   a signature of the primary key, created at 1, that states no expiration;
\*   one, created at 1, whose key validity period ends before its own
\*   expiration;
\*   a signature stating the primary key as issuer that another key made,
\*   created at 2;
\*   a signature of the second issuer that another key made, marked verified
SrcBindingSigs ==
  { SigRec("subkeyBinding", 1, PrimaryKey.keyid, 1, FALSE, FALSE, Infinity, 0),
    SigRec("subkeyBinding", 1, PrimaryKey.keyid, 1, FALSE, FALSE, MaxDate, MaxDate - 1),
    SigRec("subkeyBinding", 1, 2, 2, FALSE, FALSE, Infinity, 0),
    SigRec("subkeyBinding", 2, 2, 1, TRUE, FALSE, Infinity, 0) }

\* revocation signatures a source entity may carry: of the primary key,
\* created at 1 and at MaxDate (after the first call), and of another key
SrcRevocationSigs ==
  { SigRec("subkeyRevocation", 1, k[1], k[2], FALSE, FALSE, Infinity, 0) :
      k \in { <<PrimaryKey.keyid, 1>>, <<PrimaryKey.keyid, MaxDate>>, <<2, 1>> } }

\* SignaturePacket#verify: succeeds iff the packet is a signature of that type
\* made by `key` over dataToVerify
SigVerify(sig, key, signatureType, dataToVerify) ==
  /\ sig.type = signatureType
  /\ sig.signer = key.keyid

\* SignaturePacket#getExpirationTime
SigGetExpirationTime(sig) == sig.sigExp

----------------------------------------------------------------------------
\* Entities as values: the key packet and the contents of the two arrays.

EntityValue(kp, bs, rs) ==
  [keyPacket |-> kp, bindingSignatures |-> bs, revocationSignatures |-> rs]

\* the entity in slot s, its arrays read through the heap
View(s) ==
  EntityValue(ents[s].keyPacket,
              heap[ents[s].bindingSignatures],
              heap[ents[s].revocationSignatures])

Contains(list, x) == \E i \in 1..Len(list) : list[i] = x

\* SubKey#hasSameFingerprintAs: other is an entity or a key packet
\* (other.keyPacket || other)
hasSameFingerprintAs(this, other) ==
  PacketHasSameFingerprintAs(
    this.keyPacket,
    IF "keyPacket" \in DOMAIN other THEN other.keyPacket ELSE other)

\* the binding context { key: primaryKey, bind: keyPacket }
DataToVerify(primaryKey, keyPacket) == [key |-> primaryKey, bind |-> keyPacket]

\* SubKey#toPacketlist: the key packet is pushed, then the revocation
\* signatures and then the binding signatures are concatenated
toPacketlistBindingsFirst(this) ==
  <<this.keyPacket>> \o this.bindingSignatures \o this.revocationSignatures

toPacketlist(this) ==
  <<this.keyPacket>> \o this.revocationSignatures \o this.bindingSignatures

----------------------------------------------------------------------------
\* key/helper.js

\* helper.getExpirationTime: key creation time plus the key validity period
\* the binding signature states, Infinity when it states none
KeyGetExpirationTime(keyPacket, signature) ==
  IF signature.keyValidity = 0 THEN Infinity
  ELSE keyPacket.created + signature.keyValidity

\* a signature is expired as of date when its expiration is at or before date
SigIsExpired(sig, date) == SigGetExpirationTime(sig) <= date

\* helper.getLatestValidSignature: the indices of the signatures of the
\* expected type that verify and are not expired as of date
ValidIndices(signatures, primaryKey, signatureType, dataToVerify, date) ==
  { i \in 1..Len(signatures) :
      /\ SigVerify(signatures[i], primaryKey, signatureType, dataToVerify)
      /\ ~SigIsExpired(signatures[i], date) }

\* helper.getLatestValidSignature: the valid signature with the latest creation
\* time (the first such in list order), NullSig when there is none (the helper
\* throws)
getLatestValidSignature(signatures, primaryKey, signatureType, dataToVerify, date) ==
  LET valid == ValidIndices(signatures, primaryKey, signatureType, dataToVerify, date)
      latest == { i \in valid : \A j \in valid : signatures[j].created <= signatures[i].created }
  IN IF valid = {} THEN NullSig
     ELSE signatures[CHOOSE i \in latest : \A j \in latest : i <= j]

\* helper.isDataRevoked: some signature of the list is of the revocation type,
\* verifies against the context and was created at or before date
isDataRevoked(primaryKey, signatureType, dataToVerify, revocations, signature, key, date) ==
  \E i \in 1..Len(revocations) :
    /\ SigVerify(revocations[i], IF key = NullKey THEN primaryKey ELSE key,
                 signatureType, dataToVerify)
    /\ revocations[i].created <= date

\* helper.isDataExpired: date is at or past the effective expiration
isDataExpired(keyPacket, signature, date) ==
  \/ date >= KeyGetExpirationTime(keyPacket, signature)
  \/ date >= SigGetExpirationTime(signature)

\* helper.createSignaturePacket: a signature of the given type by primaryKey
\* over dataToSign, created at date
createSignaturePacket(dataToSign, primaryKey, signatureType, date) ==
  SigRec(signatureType, primaryKey.keyid, primaryKey.keyid, date, FALSE, FALSE, Infinity, 0)

\* helper.mergeSignatures, one source signature: it is added to the
\* destination list when the check accepted it and the list does not hold it
MergeAccept(dest, sourceSig, accepted) ==
  IF accepted /\ ~Contains(dest, sourceSig) THEN Append(dest, sourceSig) ELSE dest

----------------------------------------------------------------------------
\* SubKey read operations

\* SubKey#isRevoked
isRevoked(this, primaryKey, signature, key, date) ==
  isDataRevoked(primaryKey, "subkeyRevocation",
                DataToVerify(primaryKey, this.keyPacket),
                this.revocationSignatures, signature, key, date)

\* verify with the expiration check before the revocation check
verifyExpiryFirst(this, primaryKey, date) ==
  LET dataToVerify == DataToVerify(primaryKey, this.keyPacket)
      bindingSignature ==
        getLatestValidSignature(this.bindingSignatures, primaryKey,
                                "subkeyBinding", dataToVerify, date)
  IN IF bindingSignature = NullSig THEN "NoValidBindingSignature"
     ELSE IF isDataExpired(this.keyPacket, bindingSignature, date)
       THEN "Expired"
     ELSE IF bindingSignature.revoked
             \/ isRevoked(this, primaryKey, bindingSignature, NullKey, date)
       THEN "Revoked"
     ELSE "ok"

\* verify that looks at the selected signature's revoked flag only
verifyFlagOnly(this, primaryKey, date) ==
  LET dataToVerify == DataToVerify(primaryKey, this.keyPacket)
      bindingSignature ==
        getLatestValidSignature(this.bindingSignatures, primaryKey,
                                "subkeyBinding", dataToVerify, date)
  IN IF bindingSignature = NullSig THEN "NoValidBindingSignature"
     ELSE IF bindingSignature.revoked THEN "Revoked"
     ELSE IF isDataExpired(this.keyPacket, bindingSignature, date)
       THEN "Expired"
     ELSE "ok"

\* verify without the expiration check
verifyNoExpiry(this, primaryKey, date) ==
  LET dataToVerify == DataToVerify(primaryKey, this.keyPacket)
      bindingSignature ==
        getLatestValidSignature(this.bindingSignatures, primaryKey,
                                "subkeyBinding", dataToVerify, date)
  IN IF bindingSignature = NullSig THEN "NoValidBindingSignature"
     ELSE IF bindingSignature.revoked
             \/ isRevoked(this, primaryKey, bindingSignature, NullKey, date)
       THEN "Revoked"
     ELSE "ok"

\* verify that takes the key as expired only after its expiration, not at it
verifyStrictlyPast(this, primaryKey, date) ==
  LET dataToVerify == DataToVerify(primaryKey, this.keyPacket)
      bindingSignature ==
        getLatestValidSignature(this.bindingSignatures, primaryKey,
                                "subkeyBinding", dataToVerify, date)
  IN IF bindingSignature = NullSig THEN "NoValidBindingSignature"
     ELSE IF bindingSignature.revoked
             \/ isRevoked(this, primaryKey, bindingSignature, NullKey, date)
       THEN "Revoked"
     ELSE IF date > 0 /\ isDataExpired(this.keyPacket, bindingSignature, date - 1)
       THEN "Expired"
     ELSE "ok"

\* SubKey#verify: "ok", or the error it throws
verify(this, primaryKey, date) ==
  LET dataToVerify == DataToVerify(primaryKey, this.keyPacket)
      bindingSignature ==
        getLatestValidSignature(this.bindingSignatures, primaryKey,
                                "subkeyBinding", dataToVerify, date)
  IN IF bindingSignature = NullSig THEN "NoValidBindingSignature"
     ELSE IF bindingSignature.revoked
             \/ isRevoked(this, primaryKey, bindingSignature, NullKey, date)
       THEN "Revoked"
     ELSE IF isDataExpired(this.keyPacket, bindingSignature, date)
       THEN "Expired"
     ELSE "ok"

\* getExpirationTime answering Infinity (no expiration) when the selection fails
getExpirationTimeNever(this, primaryKey, date) ==
  LET dataToVerify == DataToVerify(primaryKey, this.keyPacket)
      bindingSignature ==
        getLatestValidSignature(this.bindingSignatures, primaryKey,
                                "subkeyBinding", dataToVerify, date)
  IN IF bindingSignature = NullSig THEN Infinity
     ELSE LET keyExpiry == KeyGetExpirationTime(this.keyPacket, bindingSignature)
              sigExpiry == SigGetExpirationTime(bindingSignature)
          IN IF keyExpiry < sigExpiry THEN keyExpiry ELSE sigExpiry

\* getExpirationTime with the comparison turned round
getExpirationTimeLater(this, primaryKey, date) ==
  LET dataToVerify == DataToVerify(primaryKey, this.keyPacket)
      bindingSignature ==
        getLatestValidSignature(this.bindingSignatures, primaryKey,
                                "subkeyBinding", dataToVerify, date)
  IN IF bindingSignature = NullSig THEN NullTime
     ELSE LET keyExpiry == KeyGetExpirationTime(this.keyPacket, bindingSignature)
              sigExpiry == SigGetExpirationTime(bindingSignature)
          IN IF keyExpiry > sigExpiry THEN keyExpiry ELSE sigExpiry

\* SubKey#getExpirationTime: a date, Infinity, or NullTime (null)
getExpirationTime(this, primaryKey, date) ==
  LET dataToVerify == DataToVerify(primaryKey, this.keyPacket)
      bindingSignature ==
        getLatestValidSignature(this.bindingSignatures, primaryKey,
                                "subkeyBinding", dataToVerify, date)
  IN IF bindingSignature = NullSig THEN NullTime
     ELSE LET keyExpiry == KeyGetExpirationTime(this.keyPacket, bindingSignature)
              sigExpiry == SigGetExpirationTime(bindingSignature)
          IN IF keyExpiry < sigExpiry THEN keyExpiry ELSE sigExpiry

----------------------------------------------------------------------------
\* SubKey#update

\* BindingScan with the newer source signature pushed instead of assigned to
\* the entry it supersedes
RECURSIVE BindingScanPush(_, _, _)
BindingScanPush(bindingSignatures, srcBindSig, i) ==
  IF i > Len(bindingSignatures)
    THEN [found |-> FALSE, sigs |-> bindingSignatures]
  ELSE IF bindingSignatures[i].issuerKeyId = srcBindSig.issuerKeyId
    THEN [found |-> TRUE,
          sigs |-> IF srcBindSig.created > bindingSignatures[i].created
                     THEN Append(bindingSignatures, srcBindSig)
                     ELSE bindingSignatures]
  ELSE BindingScanPush(bindingSignatures, srcBindSig, i + 1)

\* BindingScan that replaces the entry also when srcBindSig is as old as it
RECURSIVE BindingScanNotOlder(_, _, _)
BindingScanNotOlder(bindingSignatures, srcBindSig, i) ==
  IF i > Len(bindingSignatures)
    THEN [found |-> FALSE, sigs |-> bindingSignatures]
  ELSE IF bindingSignatures[i].issuerKeyId = srcBindSig.issuerKeyId
    THEN [found |-> TRUE,
          sigs |-> IF srcBindSig.created >= bindingSignatures[i].created
                     THEN [bindingSignatures EXCEPT ![i] = srcBindSig]
                     ELSE bindingSignatures]
  ELSE BindingScanNotOlder(bindingSignatures, srcBindSig, i + 1)

\* the loop of the binding callback from index i on: when an entry of the
\* local list has the issuer of srcBindSig, the entry is replaced if srcBindSig
\* is newer, and the scan ends
RECURSIVE BindingScan(_, _, _)
BindingScan(bindingSignatures, srcBindSig, i) ==
  IF i > Len(bindingSignatures)
    THEN [found |-> FALSE, sigs |-> bindingSignatures]
  ELSE IF bindingSignatures[i].issuerKeyId = srcBindSig.issuerKeyId
    THEN [found |-> TRUE,
          sigs |-> IF srcBindSig.created > bindingSignatures[i].created
                     THEN [bindingSignatures EXCEPT ![i] = srcBindSig]
                     ELSE bindingSignatures]
  ELSE BindingScan(bindingSignatures, srcBindSig, i + 1)

\* the binding callback without the try/catch round the verification
BindingCheckUncaught(bindingSignatures, srcBindSig, primaryKey, dataToVerify) ==
  LET scan == BindingScan(bindingSignatures, srcBindSig, 1)
  IN IF scan.found
       THEN [accept |-> FALSE, sigs |-> scan.sigs, err |-> ""]
     ELSE IF srcBindSig.verified
             \/ SigVerify(srcBindSig, primaryKey, "subkeyBinding", dataToVerify)
       THEN [accept |-> TRUE, sigs |-> bindingSignatures, err |-> ""]
     ELSE [accept |-> FALSE, sigs |-> bindingSignatures, err |-> "VerificationFailure"]

\* the binding callback: what it returns, the local list it leaves and the
\* error that leaves it ("": none; the error SignaturePacket#verify throws is
\* caught and answered with false)
BindingCheck(bindingSignatures, srcBindSig, primaryKey, dataToVerify) ==
  LET scan == BindingScan(bindingSignatures, srcBindSig, 1)
  IN IF scan.found
       THEN [accept |-> FALSE, sigs |-> scan.sigs, err |-> ""]
     ELSE IF srcBindSig.verified
             \/ SigVerify(srcBindSig, primaryKey, "subkeyBinding", dataToVerify)
       THEN [accept |-> TRUE, sigs |-> bindingSignatures, err |-> ""]
     ELSE [accept |-> FALSE, sigs |-> bindingSignatures, err |-> ""]

\* helper.mergeSignatures over the source's binding signatures from index i
\* on: the list it leaves, and the error of a callback, which ends the merge
RECURSIVE MergeBindingSignatures(_, _, _, _, _)
MergeBindingSignatures(dest, source, i, primaryKey, dataToVerify) ==
  IF i > Len(source) THEN [err |-> "", sigs |-> dest]
  ELSE LET c == BindingCheck(dest, source[i], primaryKey, dataToVerify)
       IN IF c.err # "" THEN [err |-> c.err, sigs |-> c.sigs]
          ELSE MergeBindingSignatures(MergeAccept(c.sigs, source[i], c.accept),
                                      source, i + 1, primaryKey, dataToVerify)

\* the revocation callback without regard to the creation time of the signature
RevocationCheckNoDate(srcRevSig, primaryKey, dataToVerify, date) ==
  isDataRevoked(primaryKey, "subkeyRevocation", dataToVerify, <<srcRevSig>>,
                NullSig, NullKey, Infinity)

\* the revocation callback: the signature, alone, is a revocation as of now
RevocationCheck(srcRevSig, primaryKey, dataToVerify, date) ==
  isDataRevoked(primaryKey, "subkeyRevocation", dataToVerify, <<srcRevSig>>,
                NullSig, NullKey, date)

\* helper.mergeSignatures over the source's revocation signatures from index i on
RECURSIVE MergeRevocationSignatures(_, _, _, _, _, _)
MergeRevocationSignatures(dest, source, i, primaryKey, dataToVerify, date) ==
  IF i > Len(source) THEN dest
  ELSE MergeRevocationSignatures(
         MergeAccept(dest, source[i],
                     RevocationCheck(source[i], primaryKey, dataToVerify, date)),
         source, i + 1, primaryKey, dataToVerify, date)

\* UpdateKeyPacket taking the source's packet whenever the tags differ
UpdateKeyPacketAnyTag(this, subKey) ==
  IF this.keyPacket.tag # subKey.keyPacket.tag
    THEN subKey.keyPacket
    ELSE this.keyPacket

\* the key packet after the key packet step of update
UpdateKeyPacket(this, subKey) ==
  IF this.keyPacket.tag = "publicSubkey" /\ subKey.keyPacket.tag = "secretSubkey"
    THEN subKey.keyPacket
    ELSE this.keyPacket

\* update with the fingerprint check after the key packet step
updateCheckLate(this, subKey, primaryKey, date) ==
  LET keyPacket == IF this.keyPacket.tag = "publicSubkey"
                      /\ subKey.keyPacket.tag = "secretSubkey"
                     THEN subKey.keyPacket ELSE this.keyPacket
      dataToVerify == DataToVerify(primaryKey, keyPacket)
  IN IF keyPacket.fp # subKey.keyPacket.fp \/ this.keyPacket.fp # subKey.keyPacket.fp
       THEN [err |-> "FingerprintMismatch",
             ent |-> EntityValue(keyPacket, this.bindingSignatures,
                                 this.revocationSignatures)]
       ELSE [err |-> "",
             ent |-> EntityValue(
                       keyPacket,
                       MergeBindingSignatures(this.bindingSignatures,
                                              subKey.bindingSignatures,
                                              1, primaryKey, dataToVerify).sigs,
                       MergeRevocationSignatures(this.revocationSignatures,
                                                 subKey.revocationSignatures,
                                                 1, primaryKey, dataToVerify, date))]

\* SubKey#update: the error thrown ("" when none) and the entity it leaves;
\* date is the clock read by the revocation check
update(this, subKey, primaryKey, date) ==
  IF ~hasSameFingerprintAs(this, subKey)
    THEN [err |-> "FingerprintMismatch", ent |-> this]
  ELSE
    LET keyPacket == UpdateKeyPacket(this, subKey)
        dataToVerify == DataToVerify(primaryKey, keyPacket)
        bs == MergeBindingSignatures(this.bindingSignatures, subKey.bindingSignatures,
                                     1, primaryKey, dataToVerify)
        rs == MergeRevocationSignatures(this.revocationSignatures,
                                        subKey.revocationSignatures,
                                        1, primaryKey, dataToVerify, date)
    IN IF bs.err # ""
         THEN [err |-> bs.err,
               ent |-> EntityValue(keyPacket, bs.sigs, this.revocationSignatures)]
         ELSE [err |-> "", ent |-> EntityValue(keyPacket, bs.sigs, rs)]

\* the steps of update with the revocation signatures merged before the
\* binding signatures
updateEventsRevocationsFirst(this, subKey, primaryKey, date) ==
  IF ~hasSameFingerprintAs(this, subKey) THEN <<>>
  ELSE
    LET keyPacket == UpdateKeyPacket(this, subKey)
        dataToVerify == DataToVerify(primaryKey, keyPacket)
        nb == Len(subKey.bindingSignatures)
        nr == Len(subKey.revocationSignatures)
        bsAfter(i) ==
          MergeBindingSignatures(this.bindingSignatures,
                                 SubSeq(subKey.bindingSignatures, 1, i),
                                 1, primaryKey, dataToVerify).sigs
        rsAfter(j) ==
          MergeRevocationSignatures(this.revocationSignatures,
                                    SubSeq(subKey.revocationSignatures, 1, j),
                                    1, primaryKey, dataToVerify, date)
    IN <<[step |-> "keyPacket", bind |-> keyPacket,
          ent |-> EntityValue(keyPacket, this.bindingSignatures,
                              this.revocationSignatures)]>>
       \o [j \in 1..nr |->
            [step |-> "revocation", bind |-> dataToVerify.bind,
             ent |-> EntityValue(keyPacket, this.bindingSignatures, rsAfter(j))]]
       \o [i \in 1..nb |->
            [step |-> "binding", bind |-> dataToVerify.bind,
             ent |-> EntityValue(keyPacket, bsAfter(i), rsAfter(nr))]]

\* SubKey#update, step by step: the key packet step, then one step per source
\* binding signature (its callback and what mergeSignatures does with the
\* answer), then one step per source revocation signature.  Each step is
\* given with the key packet of the binding context it checks against (for
\* the key packet step: the packet it leaves) and the entity it leaves.
updateEvents(this, subKey, primaryKey, date) ==
  IF ~hasSameFingerprintAs(this, subKey) THEN <<>>
  ELSE
    LET keyPacket == UpdateKeyPacket(this, subKey)
        dataToVerify == DataToVerify(primaryKey, keyPacket)
        nb == Len(subKey.bindingSignatures)
        nr == Len(subKey.revocationSignatures)
        bsAfter(i) ==
          MergeBindingSignatures(this.bindingSignatures,
                                 SubSeq(subKey.bindingSignatures, 1, i),
                                 1, primaryKey, dataToVerify).sigs
        rsAfter(j) ==
          MergeRevocationSignatures(this.revocationSignatures,
                                    SubSeq(subKey.revocationSignatures, 1, j),
                                    1, primaryKey, dataToVerify, date)
    IN <<[step |-> "keyPacket", bind |-> keyPacket,
          ent |-> EntityValue(keyPacket, this.bindingSignatures,
                              this.revocationSignatures)]>>
       \o [i \in 1..nb |->
            [step |-> "binding", bind |-> dataToVerify.bind,
             ent |-> EntityValue(keyPacket, bsAfter(i), this.revocationSignatures)]]
       \o [j \in 1..nr |->
            [step |-> "revocation", bind |-> dataToVerify.bind,
             ent |-> EntityValue(keyPacket, bsAfter(nb), rsAfter(j))]]

----------------------------------------------------------------------------
\* Objects and the heap

\* the entity object `obj`, its arrays read through heap h
ViewOf(obj, h) ==
  EntityValue(obj.keyPacket, h[obj.bindingSignatures], h[obj.revocationSignatures])

\* the arrays of obj after an operation left them as in value
WriteBack(h, obj, value) ==
  [a \in Addrs |->
     IF a = obj.revocationSignatures THEN value.revocationSignatures
     ELSE IF a = obj.bindingSignatures THEN value.bindingSignatures
     ELSE h[a]]

\* new SubKey(subKeyPacket): the object, its two arrays allocated at a and b
SubKey(subKeyPacket, a, b) ==
  [keyPacket |-> subKeyPacket, bindingSignatures |-> a, revocationSignatures |-> b]

\* the new entity made as a shallow copy of this: it holds this' arrays
RevokeNewShared(thisObj, a, b) ==
  SubKey(thisObj.keyPacket, thisObj.bindingSignatures, b)

\* revoke: const subKey = new SubKey(this.keyPacket)
RevokeNew(thisObj, a, b) == SubKey(thisObj.keyPacket, a, b)

\* where the arrays of the entity constructed into slot s are allocated
BindingsAddr(s) == 2 * s - 1
RevocationsAddr(s) == 2 * s

\* sequences over S of length at most n
SeqsUpTo(S, n) == UNION { [1..k -> S] : k \in 0..n }

\* the entities a caller may hand to update as the source
SourcesUpTo(max) ==
  UNION { { EntityValue(kp, bs, rs) :
              kp \in SrcKeyPackets,
              bs \in [1..n -> SrcBindingSigs],
              rs \in SeqsUpTo(SrcRevocationSigs, max - n) } :
          n \in 0..max }

Sources == SourcesUpTo(MaxSrcSigs)

\* the reason flags a caller may hand to revoke: enums.write knows the first
\* and throws on the second
ValidReasonFlags == {"noReason"}
ReasonFlags == ValidReasonFlags \cup {"unknownFlag"}

----------------------------------------------------------------------------
\* Calls in flight

Idle == [op |-> "idle"]

\* the outcome of a call that has settled
Result(op, slot, dest, date, err, time, list) ==
  [op |-> op, slot |-> slot, dest |-> dest, date |-> date, err |-> err,
   time |-> time, list |-> list]

NoResult == Result("none", 0, 0, 0, "", NullTime, <<>>)

ReadOps == {"verify", "getExpirationTime", "isRevoked", "toPacketlist"}
WriteOps == {"update", "revoke"}

FreeCalls == { c \in CallIds : calls[c] = Idle }
NextCall == CHOOSE c \in FreeCalls : \A d \in FreeCalls : c <= d

FreeSlots == { s \in Slots : ents[s] = NoEntity }
NextSlot == CHOOSE s \in FreeSlots : \A t \in FreeSlots : s <= t

\* the entities a revoke in flight has constructed and not yet returned
UnderConstruction ==
  { calls[c].dest : c \in { c \in CallIds : calls[c].op = "revoke" } }
  \cup { calls[c].slot :
           c \in { c \in CallIds : calls[c].op = "update" /\ calls[c].caller = "revoke" } }

\* the entities a caller holds
Alive == { s \in Slots : ents[s] # NoEntity /\ s \notin UnderConstruction }

\* An update in flight is suspended at an await:
\*   slot          the entity it updates
\*   caller, this, date   "revoke" when the call is the update of line 177, with
\*                 the entity revoke was called on and the date it was given
\*   dataToVerify  the binding context of line 129
\*   phase         the merge it is in: "binding" (line 130) or "revocation"
\*                 (line 147)
\*   pc            "cb" when helper.mergeSignatures awaits the answer of the
\*                 callback on a source signature, "done" when the merge has
\*                 returned and update awaits its promise (line 130 or 147)
\*   push          the source signature mergeSignatures adds when the callback
\*                 has answered true, NullSig when it answers false
\*   from          the entity that is the source (the update of line 177
\*                 merges `this`), 0 when the source is the caller's own
\*   live          the helper walks the source's array itself, so it meets
\*                 what is added to that array while the merge is suspended;
\*                 otherwise it walks a copy made when the merge began
\*   idx           with live: the number of source signatures of this merge
\*                 the helper has passed
\*   rest          otherwise: the source signatures of this merge still to come
\*   revs          the revocation signatures of the caller's own source
UpdateCallRecord(slot, caller, this, date, dataToVerify, rest, from, live, revs) ==
  [op |-> "update", slot |-> slot, caller |-> caller, this |-> this, date |-> date,
   dataToVerify |-> dataToVerify, phase |-> "binding", pc |-> "cb", push |-> NullSig,
   from |-> from, live |-> live, idx |-> 0, rest |-> rest, revs |-> revs]

\* the array of the source the merge in flight walks
SourceArray(c) ==
  IF c.phase = "binding" THEN View(c.from).bindingSignatures
  ELSE View(c.from).revocationSignatures

\* the source signatures the merge in flight has still to come to
Remaining(c) ==
  IF c.live
    THEN SubSeq(SourceArray(c), c.idx + 1, Len(SourceArray(c)))
    ELSE c.rest

\* mergeSignatures goes on after the callback has answered: the signature the
\* callback accepted is added to the list of the merge
Resume(e, c) ==
  IF c.phase = "binding"
    THEN [e EXCEPT !.bindingSignatures = MergeAccept(@, c.push, c.push # NullSig)]
    ELSE [e EXCEPT !.revocationSignatures = MergeAccept(@, c.push, c.push # NullSig)]

\* mergeSignatures turns to the source signatures still to come, list: it
\* calls the callback on the first and awaits its answer (the binding callback
\* scans, and may change, the local list before it answers; the revocation
\* callback reads the clock); with none left it returns, and update awaits its
\* promise.  err is the error that leaves the callback.
MergeGoesOn(e, c, list, date) ==
  IF list = <<>>
    THEN [ent |-> e, call |-> [c EXCEPT !.pc = "done", !.push = NullSig],
          err |-> "", done |-> FALSE]
  ELSE LET passed == [c EXCEPT !.pc = "cb",
                               !.idx = IF c.live THEN @ + 1 ELSE @,
                               !.rest = IF c.live THEN @ ELSE Tail(list)]
       IN IF c.phase = "binding"
            THEN LET k == BindingCheck(e.bindingSignatures, Head(list), PrimaryKey,
                                       c.dataToVerify)
                 IN [ent |-> [e EXCEPT !.bindingSignatures = k.sigs],
                     call |-> [passed EXCEPT
                                 !.push = IF k.accept THEN Head(list) ELSE NullSig],
                     err |-> k.err,
                     done |-> k.err # ""]
            ELSE [ent |-> e,
                  call |-> [passed EXCEPT
                              !.push = IF RevocationCheck(Head(list), PrimaryKey,
                                                          c.dataToVerify, date)
                                         THEN Head(list) ELSE NullSig],
                  err |-> "",
                  done |-> FALSE]

\* line 147: helper.mergeSignatures is called on the revocation signatures,
\* which it reads of the source now
StartRevocationMerge(e, c, date) ==
  LET list == IF c.from = 0 THEN c.revs ELSE View(c.from).revocationSignatures
      merge == [c EXCEPT !.phase = "revocation",
                         !.idx = 0,
                         !.rest = IF c.live THEN <<>> ELSE list,
                         !.revs = <<>>]
  IN MergeGoesOn(e, merge, list, date)

\* update goes on, on the entity e, from its await to the next or to its end:
\* after the answer of a callback the helper adds the signature and turns to
\* the next; after the await of line 130 the second merge begins; after that
\* of line 147 update is done.
Proceed(e, c, date) ==
  IF c.pc = "cb"
    THEN MergeGoesOn(Resume(e, c), c, Remaining(c), date)
  ELSE IF c.phase = "binding"
    THEN StartRevocationMerge(e, c, date)
  ELSE [ent |-> e, call |-> c, err |-> "", done |-> TRUE]

\* what the caller of the update c gets when it is done: revoke returns the
\* entity it made, or fails as its update failed
UpdateResult(c, err) ==
  IF c.caller = "revoke"
    THEN Result("revoke", c.this, IF err = "" THEN c.slot ELSE 0, c.date, err,
                NullTime, <<>>)
    ELSE Result("update", c.slot, 0, now, err, NullTime, <<>>)

----------------------------------------------------------------------------
\* The state machine

Init ==
  /\ ents = [s \in Slots |->
               IF s = 1
                 THEN SubKey([fp |-> 1, tag |-> "publicSubkey", created |-> 0],
                             BindingsAddr(1), RevocationsAddr(1))
                 ELSE NoEntity]
  /\ heap = [a \in Addrs |-> <<>>]
  /\ now = FirstInstant
  /\ calls = [c \in CallIds |-> Idle]
  /\ made = 0
  /\ last = NoResult

\* the update under call id `id` of the entity in slot t has run up to p (a
\* value of Proceed): the entity is as p left it, and the call is suspended
\* or, when done, settled.  The entity revoke made is dropped when its update
\* failed.
Advance(id, t, p) ==
  /\ IF p.done /\ p.err # "" /\ p.call.caller = "revoke"
       THEN /\ ents' = [ents EXCEPT ![t] = NoEntity]
            /\ heap' = [heap EXCEPT ![BindingsAddr(t)] = <<>>,
                                    ![RevocationsAddr(t)] = <<>>]
       ELSE /\ ents' = [ents EXCEPT ![t].keyPacket = p.ent.keyPacket]
            /\ heap' = WriteBack(heap, ents[t], p.ent)
  /\ calls' = [calls EXCEPT ![id] = IF p.done THEN Idle ELSE p.call]
  /\ last' = IF p.done THEN UpdateResult(p.call, p.err) ELSE NoResult

\* ents[t].update(subKey, PrimaryKey) is called: lines 119 to 129, and line
\* 130 up to the await in helper.mergeSignatures on its first callback, or,
\* with no binding signature in the source, up to the await of line 130
UpdateCall(t) ==
  /\ t \in Alive
  /\ made < MaxCalls
  /\ FreeCalls # {}
  /\ \E subKey \in Sources :
       IF ~hasSameFingerprintAs(View(t), subKey)
         THEN /\ last' = Result("update", t, 0, now, "FingerprintMismatch",
                                NullTime, <<>>)
              /\ UNCHANGED <<ents, heap, calls>>
         ELSE LET keyPacket == UpdateKeyPacket(View(t), subKey)
                  c == UpdateCallRecord(t, "update", t, 0,
                                        DataToVerify(PrimaryKey, keyPacket),
                                        subKey.bindingSignatures,
                                        0, FALSE, subKey.revocationSignatures)
              IN Advance(NextCall, t,
                         MergeGoesOn([View(t) EXCEPT !.keyPacket = keyPacket], c,
                                     subKey.bindingSignatures, now))
  /\ made' = made + 1
  /\ now' = now

\* the update in flight under c goes on from its await to the next, or to its end
UpdateStep(c) ==
  /\ calls[c].op = "update"
  /\ Advance(c, calls[c].slot, Proceed(View(calls[c].slot), calls[c], now))
  /\ UNCHANGED <<now, made>>

\* ents[s].revoke(PrimaryKey, {flag}, date) is called: lines 170 to 172, up to
\* the await on createSignaturePacket.  enums.write throws on a flag it does
\* not know, and revoke fails.
RevokeCall(s) ==
  /\ s \in Alive
  /\ made < MaxCalls
  /\ FreeCalls # {}
  /\ FreeSlots # {}
  /\ \E date \in Dates, flag \in ReasonFlags :
       IF flag \notin ValidReasonFlags
         THEN /\ last' = Result("revoke", s, 0, date, "InvalidEnumValue", NullTime, <<>>)
              /\ UNCHANGED <<ents, heap, calls>>
         ELSE /\ ents' = [ents EXCEPT ![NextSlot] =
                            RevokeNew(ents[s], BindingsAddr(NextSlot),
                                      RevocationsAddr(NextSlot))]
              /\ heap' = [heap EXCEPT ![BindingsAddr(NextSlot)] = <<>>,
                                      ![RevocationsAddr(NextSlot)] = <<>>]
              /\ calls' = [calls EXCEPT ![NextCall] =
                             [op |-> "revoke", slot |-> s, dest |-> NextSlot,
                              date |-> date,
                              dataToSign |-> DataToVerify(PrimaryKey, ents[s].keyPacket)]]
              /\ last' = NoResult
  /\ made' = made + 1
  /\ now' = now

\* the revoke in flight under c goes on after createSignaturePacket: the
\* helper has failed (the primary key is not decrypted) and so does revoke, or
\* the new signature is pushed (line 172) and subKey.update(this, primaryKey)
\* is called (line 177), which runs up to its first await as any update does.
\* The source is the entity revoke was called on; the helper walks its arrays
\* or copies of them.
RevokeSign(c) ==
  /\ calls[c].op = "revoke"
  /\ \/ /\ ents' = [ents EXCEPT ![calls[c].dest] = NoEntity]
        /\ calls' = [calls EXCEPT ![c] = Idle]
        /\ last' = Result("revoke", calls[c].slot, 0, calls[c].date,
                          "SigningFailure", NullTime, <<>>)
        /\ heap' = heap
     \/ \E live \in BOOLEAN :
          LET r == calls[c]
              subKey == [View(r.dest) EXCEPT
                           !.revocationSignatures =
                              Append(@, createSignaturePacket(r.dataToSign, PrimaryKey,
                                                              "subkeyRevocation", r.date))]
              this == View(r.slot)
          IN IF ~hasSameFingerprintAs(subKey, this)
               THEN Advance(c, r.dest,
                            [ent |-> subKey, err |-> "FingerprintMismatch", done |-> TRUE,
                             call |-> UpdateCallRecord(r.dest, "revoke", r.slot, r.date,
                                                       r.dataToSign, <<>>, r.slot, live,
                                                       <<>>)])
               ELSE LET keyPacket == UpdateKeyPacket(subKey, this)
                        u == UpdateCallRecord(r.dest, "revoke", r.slot, r.date,
                                              DataToVerify(PrimaryKey, keyPacket),
                                              IF live THEN <<>> ELSE this.bindingSignatures,
                                              r.slot, live, <<>>)
                    IN Advance(c, r.dest,
                               MergeGoesOn([subKey EXCEPT !.keyPacket = keyPacket], u,
                                           this.bindingSignatures, now))
  /\ UNCHANGED <<now, made>>

\* a verify that marks as verified the binding signatures it found to verify
VerifyCallMarking(s) ==
  /\ s \in Alive
  /\ made < MaxCalls
  /\ FreeCalls # {}
  /\ \E date \in Dates :
       calls' = [calls EXCEPT ![NextCall] =
                   [op |-> "verify", slot |-> s, date |-> date, pc |-> 77,
                    bindingSignature |->
                      getLatestValidSignature(
                        View(s).bindingSignatures, PrimaryKey, "subkeyBinding",
                        DataToVerify(PrimaryKey, View(s).keyPacket), date),
                    revoked |-> FALSE]]
  /\ last' = NoResult
  /\ heap' = [heap EXCEPT ![ents[s].bindingSignatures] =
                [i \in 1..Len(@) |->
                   IF SigVerify(@[i], PrimaryKey, "subkeyBinding",
                                DataToVerify(PrimaryKey, ents[s].keyPacket))
                     THEN [@[i] EXCEPT !.verified = TRUE]
                     ELSE @[i]]]
  /\ UNCHANGED <<ents, now>>
  /\ made' = made + 1

\* ents[s].verify(PrimaryKey, date) is called: up to the await of line 77
VerifyCall(s) ==
  /\ s \in Alive
  /\ made < MaxCalls
  /\ FreeCalls # {}
  /\ \E date \in Dates :
       calls' = [calls EXCEPT ![NextCall] =
                   [op |-> "verify", slot |-> s, date |-> date, pc |-> 77,
                    bindingSignature |->
                      getLatestValidSignature(
                        View(s).bindingSignatures, PrimaryKey, "subkeyBinding",
                        DataToVerify(PrimaryKey, View(s).keyPacket), date),
                    revoked |-> FALSE]]
  /\ last' = NoResult
  /\ UNCHANGED <<ents, heap, now>>
  /\ made' = made + 1

\* the verify in flight under c goes on: from the await of line 77 to that of
\* line 79 (isRevoked reads the revocation signatures), or from there to the
\* end (isDataExpired reads the key packet)
VerifyStep(c) ==
  /\ calls[c].op = "verify"
  /\ LET r == calls[c]
         this == View(r.slot)
         settled(err) ==
           /\ calls' = [calls EXCEPT ![c] = Idle]
           /\ last' = Result("verify", r.slot, 0, r.date, err, NullTime, <<>>)
     IN IF r.pc = 77
          THEN IF r.bindingSignature = NullSig
                 THEN settled("NoValidBindingSignature")
               ELSE IF r.bindingSignature.revoked
                 THEN settled("Revoked")
               ELSE /\ calls' = [calls EXCEPT
                                   ![c].pc = 79,
                                   ![c].revoked =
                                      isRevoked(this, PrimaryKey, r.bindingSignature,
                                                NullKey, r.date)]
                    /\ last' = NoResult
          ELSE IF r.revoked
                 THEN settled("Revoked")
               ELSE IF isDataExpired(this.keyPacket, r.bindingSignature, r.date)
                 THEN settled("Expired")
               ELSE settled("ok")
  /\ UNCHANGED <<ents, heap, now, made>>

\* ents[s].getExpirationTime(PrimaryKey, date) is called: up to the await of
\* line 101
GetExpirationTimeCall(s) ==
  /\ s \in Alive
  /\ made < MaxCalls
  /\ FreeCalls # {}
  /\ \E date \in Dates :
       calls' = [calls EXCEPT ![NextCall] =
                   [op |-> "getExpirationTime", slot |-> s, date |-> date,
                    bindingSignature |->
                      getLatestValidSignature(
                        View(s).bindingSignatures, PrimaryKey, "subkeyBinding",
                        DataToVerify(PrimaryKey, View(s).keyPacket), date)]]
  /\ last' = NoResult
  /\ UNCHANGED <<ents, heap, now>>
  /\ made' = made + 1

\* the getExpirationTime in flight under c goes on after the await of line
\* 101: null when the selection failed, or lines 105 to 107
GetExpirationTimeStep(c) ==
  /\ calls[c].op = "getExpirationTime"
  /\ LET r == calls[c]
         keyExpiry == KeyGetExpirationTime(View(r.slot).keyPacket, r.bindingSignature)
         sigExpiry == SigGetExpirationTime(r.bindingSignature)
     IN last' = Result("getExpirationTime", r.slot, 0, r.date, "",
                       IF r.bindingSignature = NullSig THEN NullTime
                       ELSE IF keyExpiry < sigExpiry THEN keyExpiry ELSE sigExpiry,
                       <<>>)
  /\ calls' = [calls EXCEPT ![c] = Idle]
  /\ UNCHANGED <<ents, heap, now, made>>

\* ents[s].isRevoked(PrimaryKey, null, null, date): the call hands the list to
\* isDataRevoked, whose answer it returns
IsRevoked(s) ==
  /\ s \in Alive
  /\ made < MaxCalls
  /\ \E date \in Dates :
       last' = Result("isRevoked", s, 0, date,
                      IF isRevoked(View(s), PrimaryKey, NullSig, NullKey, date)
                        THEN "true" ELSE "false",
                      NullTime, <<>>)
  /\ UNCHANGED <<ents, heap, now, calls>>
  /\ made' = made + 1

\* ents[s].toPacketlist()
ToPacketlist(s) ==
  /\ s \in Alive
  /\ made < MaxCalls
  /\ last' = Result("toPacketlist", s, 0, now, "", NullTime, toPacketlist(View(s)))
  /\ UNCHANGED <<ents, heap, now, calls>>
  /\ made' = made + 1

\* time passes
Tick ==
  /\ now < MaxDate
  /\ now' = now + 1
  /\ last' = NoResult
  /\ UNCHANGED <<ents, heap, calls, made>>

\* a call is made
StartWrite == (\E s \in Slots : UpdateCall(s)) \/ (\E s \in Slots : RevokeCall(s))

StartRead ==
  \/ \E s \in Slots : VerifyCall(s)
  \/ \E s \in Slots : GetExpirationTimeCall(s)
  \/ \E s \in Slots : IsRevoked(s)
  \/ \E s \in Slots : ToPacketlist(s)

\* a call in flight goes on
Continue ==
  \/ \E c \in CallIds : UpdateStep(c)
  \/ \E c \in CallIds : RevokeSign(c)
  \/ \E c \in CallIds : VerifyStep(c)
  \/ \E c \in CallIds : GetExpirationTimeStep(c)

\* Everything the code can do: calls are made while others are in flight, and
\* the calls in flight go on in any order.
Next == StartWrite \/ StartRead \/ Continue \/ Tick

Spec == Init /\ [][Next]_vars

\* no call is in flight
NoCallInFlight == \A c \in CallIds : calls[c] = Idle

\* the calls in flight that work on the entity of slot s: those called on it,
\* the revoke that is constructing it, and the update of line 177 that merges
\* it into the entity revoke has constructed
CallsOn(s) ==
  { c \in CallIds :
      /\ calls[c] # Idle
      /\ \/ calls[c].slot = s
         \/ calls[c].op = "revoke" /\ calls[c].dest = s
         \/ calls[c].op = "update" /\ calls[c].this = s }

\* no call is in flight on the entity of slot s; no update or revoke is
NoCallInFlightOn(s) == CallsOn(s) = {}
NoWriteInFlightOn(s) == \A c \in CallsOn(s) : calls[c].op \notin WriteOps

\* The callers keep the single-writer discipline of section 5: update and
\* revoke are called on an entity when no call is in flight on it, and
\* nothing is called on it while one of them is; the read operations are
\* called while others of them are in flight on the entity, and the calls on
\* different entities overlap.
NextSingleWriter ==
  \/ \E s \in Slots : NoCallInFlightOn(s) /\ UpdateCall(s)
  \/ \E s \in Slots : NoCallInFlightOn(s) /\ RevokeCall(s)
  \/ \E s \in Slots : NoWriteInFlightOn(s) /\ VerifyCall(s)
  \/ \E s \in Slots : NoWriteInFlightOn(s) /\ GetExpirationTimeCall(s)
  \/ \E s \in Slots : NoWriteInFlightOn(s) /\ IsRevoked(s)
  \/ \E s \in Slots : NoWriteInFlightOn(s) /\ ToPacketlist(s)
  \/ Continue
  \/ Tick

SpecSingleWriter == Init /\ [][NextSingleWriter]_vars

----------------------------------------------------------------------------
\* Properties

\* the states between calls, as update and revoke (or the constructor, or the
\* clock) left them.  A read operation leaves the entities as they are, so
\* every value a caller finds an entity in is met in one of these states.
WriteState == NoCallInFlight /\ last.op \notin ReadOps

\* the entities update can be called on next, by a caller that calls it when
\* no call is in flight
Updatable == IF WriteState THEN Alive ELSE {}

\* the sources update can be handed, by the fingerprint of their key material
SourcesByFingerprint ==
  [f \in Fingerprints |-> { subKey \in Sources : subKey.keyPacket.fp = f }]

\* sig is a binding signature the primary key made
IsValidBinding(sig) == sig.type = "subkeyBinding" /\ sig.signer = PrimaryKey.keyid

\* sig is a revocation signature the primary key made
IsValidRevocation(sig) == sig.type = "subkeyRevocation" /\ sig.signer = PrimaryKey.keyid

\* the entity as the constructor leaves it
NewEntity == EntityValue([fp |-> 1, tag |-> "publicSubkey", created |-> 0], <<>>, <<>>)

\* the entity of slot s before and after the step
Before(s) == ViewOf(ents[s], heap)
After(s) == ViewOf(ents'[s], heap')

\* C1: update with a source whose key-material fingerprint differs from the
\* entity's fails with FingerprintMismatch and leaves the entity's key
\* material, binding signatures and revocation signatures as they were,
\* whatever the source's lists hold.
C1_MismatchFailsWithoutMutation ==
  \A s \in Updatable : \A f \in Fingerprints \ {View(s).keyPacket.fp} :
    \A subKey \in SourcesByFingerprint[f] :
      LET r == update(View(s), subKey, PrimaryKey, now)
      IN r.err = "FingerprintMismatch" /\ r.ent = View(s)

\* an update of an entity that holds signatures of both kinds has just failed
\* with FingerprintMismatch
C1_Witness ==
  /\ last.op = "update"
  /\ last.err = "FingerprintMismatch"
  /\ View(1).keyPacket.tag = "publicSubkey"
  /\ Len(View(1).bindingSignatures) > 0
  /\ Len(View(1).revocationSignatures) > 0

\* C2: update is idempotent: merging a source with the entity's fingerprint
\* into the result of merging it leaves that result as it is, so the second
\* run adds no second entry of an issuer and no second copy of a revocation.
C2_UpdateIdempotent ==
  \A s \in Updatable : \A subKey \in Sources :
    LET r1 == update(View(s), subKey, PrimaryKey, now)
        r2 == update(r1.ent, subKey, PrimaryKey, now)
    IN r2.ent = r1.ent

\* C3: monotonic trust for signatures: an update keeps every valid binding
\* signature and every revocation signature the entity held; a valid binding
\* signature is never removed or replaced by a source signature that does not
\* verify.  Stated in its weakest reading: an entry that held a valid binding
\* signature holds it, or a signature that verifies, after the update (the
\* newer signature of the same issuer that 4.6 lets take its place is not
\* counted against the claim), and no revocation signature is lost.
C3_ValidSignaturesKept ==
  \A s \in Updatable : \A subKey \in SourcesByFingerprint[View(s).keyPacket.fp] :
    \A e \in {View(s)} : \A r \in {update(e, subKey, PrimaryKey, now).ent} :
      /\ \A i \in 1..Len(e.bindingSignatures) :
           IsValidBinding(e.bindingSignatures[i]) =>
             \/ Contains(r.bindingSignatures, e.bindingSignatures[i])
             \/ /\ i <= Len(r.bindingSignatures)
                /\ IsValidBinding(r.bindingSignatures[i])
      /\ \A i \in 1..Len(e.revocationSignatures) :
           Contains(r.revocationSignatures, e.revocationSignatures[i])

\* the revoke that has made the entity of slot s in this step
MakerOf(s) == CHOOSE c \in CallIds : calls'[c].op = "revoke" /\ calls'[c].dest = s

\* C4: an entity's key material changes only from the public to the secret
\* packet of the same fingerprint; the entity revoke makes starts with the
\* key material of the original.
C4_KeyMaterialOnlyUpgrades ==
  [][ \A s \in Slots :
        ents'[s] # NoEntity =>
          LET old == IF ents[s] # NoEntity
                       THEN ents[s].keyPacket
                       ELSE ents[calls'[MakerOf(s)].slot].keyPacket
              new == ents'[s].keyPacket
          IN \/ new = old
             \/ /\ old.tag = "publicSubkey"
                /\ new.tag = "secretSubkey"
                /\ new.fp = old.fp ]_vars

\* the entity, constructed on the public packet, holds the secret packet
\* after an update, and so does the entity revoke then made of it
C4_Witness ==
  /\ last.op = "revoke"
  /\ last.err = ""
  /\ ents[1].keyPacket = [fp |-> 1, tag |-> "secretSubkey", created |-> 0]
  /\ ents[last.dest].keyPacket = ents[1].keyPacket

TwoOfOneIssuer(subKey) ==
  /\ Len(subKey.bindingSignatures) = 2
  /\ subKey.bindingSignatures[1] # subKey.bindingSignatures[2]
  /\ subKey.bindingSignatures[1].issuerKeyId = subKey.bindingSignatures[2].issuerKeyId
  /\ \A i \in 1..2 : IsValidBinding(subKey.bindingSignatures[i])

RevokedAsOf(e, date) ==
  \E i \in 1..Len(e.revocationSignatures) :
    /\ IsValidRevocation(e.revocationSignatures[i])
    /\ e.revocationSignatures[i].created <= date

\* the entity holds a binding signature of the primary key not expired at date
BoundAsOf(e, date) ==
  \E i \in 1..Len(e.bindingSignatures) :
    /\ IsValidBinding(e.bindingSignatures[i])
    /\ e.bindingSignatures[i].sigExp > date

\* C6 as stated: whenever the entity holds a revocation signature valid as of
\* d, verify(primary, d) fails with Revoked.
C6_RevokedWhenRevocationValid ==
  \A s \in Alive : \A d \in Dates :
    RevokedAsOf(View(s), d) => verify(View(s), PrimaryKey, d) = "Revoked"

\* C6, amended: whenever the entity holds a revocation signature valid as of d
\* and a binding signature valid as of d, verify(primary, d) fails with
\* Revoked, also when the key is past its expiration; with no valid binding
\* signature it fails with NoValidBindingSignature.
C6_RevocationPrecedence ==
  \A s \in Alive : \A d \in Dates :
    RevokedAsOf(View(s), d) =>
      verify(View(s), PrimaryKey, d) =
        IF BoundAsOf(View(s), d) THEN "Revoked" ELSE "NoValidBindingSignature"

\* verify has just failed with Revoked on an entity whose key is expired at
\* the date asked
C6_Witness ==
  /\ last.op = "verify"
  /\ last.err = "Revoked"
  /\ RevokedAsOf(View(last.slot), last.date)
  /\ \E i \in 1..Len(View(last.slot).bindingSignatures) :
       LET sig == View(last.slot).bindingSignatures[i]
       IN /\ IsValidBinding(sig)
          /\ sig.sigExp > last.date
          /\ sig.keyValidity # 0
          /\ View(last.slot).keyPacket.created + sig.keyValidity <= last.date

\* revoke, called on the entity of slot last.slot with the date last.date,
\* has just returned the entity of slot last.dest
RevokeReturned == last.op = "revoke" /\ last.err = ""

\* C7 as stated: when S passes verify, the entity S.revoke(primary, reason, d)
\* returns fails verify with Revoked at every date at or after d, and S still
\* passes verify at those dates.
C7_RevokedFromDateOn ==
  (RevokeReturned /\ verify(View(last.slot), PrimaryKey, last.date) = "ok") =>
    \A d \in Dates :
      d >= last.date =>
        /\ verify(View(last.dest), PrimaryKey, d) = "Revoked"
        /\ verify(View(last.slot), PrimaryKey, d) = "ok"

\* C7, amended: at every date at or after d at which S passes verify, the
\* entity S.revoke(primary, reason, d) returns fails verify with Revoked.
C7_RevokedWhereOriginalPasses ==
  RevokeReturned =>
    \A d \in Dates :
      (d >= last.date /\ verify(View(last.slot), PrimaryKey, d) = "ok") =>
        verify(View(last.dest), PrimaryKey, d) = "Revoked"

\* revoke has just returned an entity that fails verify with Revoked at a
\* date at which the original passes
C7_Witness ==
  /\ RevokeReturned
  /\ \E d \in Dates :
       /\ d >= last.date
       /\ verify(View(last.slot), PrimaryKey, d) = "ok"
       /\ verify(View(last.dest), PrimaryKey, d) = "Revoked"

\* the step is one of an update called on the entity of slot s, or of the
\* revoke that makes it
WrittenTo(s) ==
  \/ \E c \in CallIds : calls[c].op = "update" /\ calls[c].slot = s
  \/ \E c \in CallIds : calls'[c].op = "update" /\ calls'[c].slot = s
  \/ \E c \in CallIds : calls[c].op = "revoke" /\ calls[c].dest = s
  \/ last'.op = "update" /\ last'.slot = s
  \/ last'.op = "revoke" /\ last'.dest = s

\* C8: revoke does not change the entity it is called on, and neither does an
\* update of the entity it returned: an entity changes in the steps of an
\* update called on it only, and no two entities share a signature array.
C8_RevokeLeavesOriginal ==
  [][ \A s \in Slots :
        (ents[s] # NoEntity /\ ents'[s] # NoEntity) =>
          /\ After(s) # Before(s) => WrittenTo(s)
          /\ \A t \in Slots \ {s} :
               ents'[t] # NoEntity =>
                 /\ ents'[t].bindingSignatures # ents'[s].bindingSignatures
                 /\ ents'[t].revocationSignatures # ents'[s].revocationSignatures ]_vars

\* an update has just added a binding signature to the entity revoke
\* returned that the original, which holds signatures, does not hold
C8_Witness ==
  /\ last.op = "update"
  /\ last.slot = 2
  /\ Len(View(1).bindingSignatures) > 0
  /\ \E i \in 1..Len(View(2).bindingSignatures) :
       ~Contains(View(1).bindingSignatures, View(2).bindingSignatures[i])
  /\ Len(View(2).revocationSignatures) > 0

\* C9: the entity revoke returns has the key material of the original, and
\* its lists hold the new revocation signature and every binding and
\* revocation signature of the original.
C9_RevokeInheritsHistory ==
  RevokeReturned =>
    /\ View(last.dest).keyPacket = View(last.slot).keyPacket
    /\ \E i \in 1..Len(View(last.dest).revocationSignatures) :
         LET sig == View(last.dest).revocationSignatures[i]
         IN IsValidRevocation(sig) /\ sig.created = last.date
    /\ \A i \in 1..Len(View(last.slot).bindingSignatures) :
         Contains(View(last.dest).bindingSignatures,
                  View(last.slot).bindingSignatures[i])
    /\ \A i \in 1..Len(View(last.slot).revocationSignatures) :
         Contains(View(last.dest).revocationSignatures,
                  View(last.slot).revocationSignatures[i])

\* C10: when the entity has a valid binding signature as of d,
\* getExpirationTime(primary, d) is the earlier of the key expiration and the
\* signature expiration of the selected signature: it is one of the two, not
\* later than either, and Infinity only when both are.
C10_EarlierExpiration ==
  WriteState =>
    \A s \in Alive : \A d \in Dates :
      BoundAsOf(View(s), d) =>
        LET sig == getLatestValidSignature(View(s).bindingSignatures, PrimaryKey,
                                           "subkeyBinding",
                                           DataToVerify(PrimaryKey, View(s).keyPacket), d)
            keyExpiry == KeyGetExpirationTime(View(s).keyPacket, sig)
            sigExpiry == SigGetExpirationTime(sig)
            t == getExpirationTime(View(s), PrimaryKey, d)
        IN /\ t \in {keyExpiry, sigExpiry}
           /\ t <= keyExpiry
           /\ t <= sigExpiry
           /\ t = Infinity => (keyExpiry = Infinity /\ sigExpiry = Infinity)

\* getExpirationTime has just returned the key expiration, which is earlier
\* than the signature expiration of the selected signature
C10_Witness ==
  /\ last.op = "getExpirationTime"
  /\ last.time # NullTime
  /\ \E i \in 1..Len(View(last.slot).bindingSignatures) :
       LET sig == View(last.slot).bindingSignatures[i]
       IN /\ IsValidBinding(sig)
          /\ sig.keyValidity # 0
          /\ View(last.slot).keyPacket.created + sig.keyValidity = last.time
          /\ last.time < sig.sigExp
          /\ sig.sigExp < Infinity

\* C11: when the entity has no valid binding signature as of d (the list is
\* empty, no signature verifies, or all that verify are expired at d),
\* getExpirationTime(primary, d) returns null and raises nothing, and
\* verify(primary, d) fails with NoValidBindingSignature.
C11_InvalidWithoutBinding ==
  /\ WriteState =>
       \A s \in Alive : \A d \in Dates :
         ~BoundAsOf(View(s), d) =>
           /\ getExpirationTime(View(s), PrimaryKey, d) = NullTime
           /\ verify(View(s), PrimaryKey, d) = "NoValidBindingSignature"
  /\ (last.op = "getExpirationTime" /\ ~BoundAsOf(View(last.slot), last.date)) =>
       last.time = NullTime /\ last.err = ""
  /\ (last.op = "verify" /\ ~BoundAsOf(View(last.slot), last.date)) =>
       last.err = "NoValidBindingSignature"

\* getExpirationTime has just returned null for an entity whose binding
\* signatures of the primary key are all expired at the date asked
C11_Witness ==
  /\ last.op = "getExpirationTime"
  /\ last.time = NullTime
  /\ last.err = ""
  /\ \E i \in 1..Len(View(last.slot).bindingSignatures) :
       /\ IsValidBinding(View(last.slot).bindingSignatures[i])
       /\ View(last.slot).bindingSignatures[i].sigExp <= last.date
  /\ verify(View(last.slot), PrimaryKey, last.date) = "NoValidBindingSignature"

\* C12: toPacketlist gives the key packet first, then every revocation
\* signature in list order, then every binding signature in list order, and
\* nothing else: no binding signature comes before a revocation signature.
C12_WireOrder ==
  \A s \in Alive :
    LET e == View(s)
        p == toPacketlist(e)
        nr == Len(e.revocationSignatures)
        nb == Len(e.bindingSignatures)
    IN /\ Len(p) = 1 + nr + nb
       /\ p[1] = e.keyPacket
       /\ \A i \in 1..nr : p[1 + i] = e.revocationSignatures[i]
       /\ \A i \in 1..nb : p[1 + nr + i] = e.bindingSignatures[i]
       /\ \A i, j \in 2..Len(p) :
            (p[i].type = "subkeyBinding" /\ p[j].type = "subkeyRevocation") => j < i
       /\ (last.op = "toPacketlist" /\ last.slot = s) => last.list = p

\* toPacketlist has just returned the sequence of an entity that holds two
\* revocation signatures and a binding signature
C12_Witness ==
  /\ last.op = "toPacketlist"
  /\ Len(View(last.slot).revocationSignatures) >= 2
  /\ Len(View(last.slot).bindingSignatures) >= 1
  /\ Len(last.list) >= 4
  /\ last.list[2].type = "subkeyRevocation"
  /\ last.list[Len(last.list)].type = "subkeyBinding"

\* the binding signature verify and getExpirationTime select for the entity
\* as of date (NullSig when the selection fails)
Selected(e, date) ==
  getLatestValidSignature(e.bindingSignatures, PrimaryKey, "subkeyBinding",
                          DataToVerify(PrimaryKey, e.keyPacket), date)

\* the earlier of the key expiration and the signature expiration of sig
EffectiveExpiration(e, sig) ==
  LET keyExpiry == KeyGetExpirationTime(e.keyPacket, sig)
      sigExpiry == SigGetExpirationTime(sig)
  IN IF keyExpiry <= sigExpiry THEN keyExpiry ELSE sigExpiry

\* the binding signatures of the entity that the primary key made and that
\* are the latest created among those
LatestBindings(e) ==
  { i \in 1..Len(e.bindingSignatures) :
      /\ IsValidBinding(e.bindingSignatures[i])
      /\ \A j \in 1..Len(e.bindingSignatures) :
           IsValidBinding(e.bindingSignatures[j]) =>
             e.bindingSignatures[j].created <= e.bindingSignatures[i].created }

\* C13 as stated: for an entity whose binding signature is not revoked,
\* verify(primary, date) fails with Expired whenever date is at or past the
\* effective expiration of that signature, also when it is the signature
\* expiration that has passed.
C13_ExpiredAlsoBySignature ==
  WriteState => \A s \in Alive : \A d \in Dates :
    LET e == View(s)
    IN \A i \in LatestBindings(e) :
         (/\ ~e.bindingSignatures[i].revoked
          /\ ~RevokedAsOf(e, d)
          /\ d >= EffectiveExpiration(e, e.bindingSignatures[i]))
           => verify(e, PrimaryKey, d) = "Expired"

\* C13, amended: when a binding signature is selected as of date (its own
\* expiration is then later than date) and is not revoked, verify(primary,
\* date) fails with Expired exactly when date is at or past the key expiration
\* that signature states, the date of expiration included; a signature
\* expiration that has passed never shows as Expired.
C13_ExpiredAtOrPast ==
  WriteState =>
    \A s \in Alive : \A d \in Dates :
      LET e == View(s)
          sig == Selected(e, d)
      IN (sig # NullSig /\ ~sig.revoked /\ ~RevokedAsOf(e, d)) =>
           /\ SigGetExpirationTime(sig) > d
           /\ (d >= EffectiveExpiration(e, sig)) = (verify(e, PrimaryKey, d) = "Expired")
           /\ (verify(e, PrimaryKey, d) = "Expired")
                = (d >= KeyGetExpirationTime(e.keyPacket, sig))

\* verify has just failed with Expired at the very date of the key
\* expiration, on an entity that holds no revocation signature
C13_Witness ==
  /\ last.op = "verify"
  /\ last.err = "Expired"
  /\ Len(View(last.slot).revocationSignatures) = 0
  /\ Selected(View(last.slot), last.date) # NullSig
  /\ EffectiveExpiration(View(last.slot), Selected(View(last.slot), last.date))
       = last.date

\* sig is acceptable as a binding signature of the entity: it is marked
\* verified or it verifies against {key: primary, bind: keyPacket}
Acceptable(sig, keyPacket) ==
  \/ sig.verified
  \/ SigVerify(sig, PrimaryKey, "subkeyBinding", DataToVerify(PrimaryKey, keyPacket))

\* list holds a signature of the issuer of sig
HoldsIssuerOf(list, sig) ==
  \E i \in 1..Len(list) : list[i].issuerKeyId = sig.issuerKeyId

\* C14: after an update, a binding signature of an issuer that had no entry
\* in the local list before the update is in the local list only if it is
\* marked verified or verifies as a subkey binding against {primary, this
\* key}: a candidate that fails verification is never in the list after the
\* update, whatever the list held before.
C14_OnlyVerifiedAccepted ==
  \A s \in Updatable : \A subKey \in SourcesByFingerprint[View(s).keyPacket.fp] :
    \A e \in {View(s)} : \A r \in {update(e, subKey, PrimaryKey, now).ent} :
      \A i \in 1..Len(r.bindingSignatures) :
        ~HoldsIssuerOf(e.bindingSignatures, r.bindingSignatures[i])
          => Acceptable(r.bindingSignatures[i], r.keyPacket)

\* sig, alone, is a subkey revocation against {primary, this key} as of now
ValidAlone(sig) == IsValidRevocation(sig) /\ sig.created <= now

\* C15: a revocation signature of the source is in the local list after an
\* update only if the list held it before or the signature, checked alone, is
\* a valid subkey revocation against {primary, this key}; every other one is
\* absent.  The entity revoke returns holds the new revocation signature and,
\* of the original's, those valid alone.
C15_RevocationValidAlone ==
  /\ \A s \in Updatable : \A subKey \in SourcesByFingerprint[View(s).keyPacket.fp] :
       \A e \in {View(s)} : \A r \in {update(e, subKey, PrimaryKey, now).ent} :
         /\ \A i \in 1..Len(r.revocationSignatures) :
              \/ Contains(e.revocationSignatures, r.revocationSignatures[i])
              \/ /\ ValidAlone(r.revocationSignatures[i])
                 /\ Contains(subKey.revocationSignatures, r.revocationSignatures[i])
         /\ \A j \in 1..Len(subKey.revocationSignatures) :
              (/\ ~ValidAlone(subKey.revocationSignatures[j])
               /\ ~Contains(e.revocationSignatures, subKey.revocationSignatures[j]))
                => ~Contains(r.revocationSignatures, subKey.revocationSignatures[j])
  /\ RevokeReturned =>
       \A i \in 1..Len(View(last.dest).revocationSignatures) :
         LET sig == View(last.dest).revocationSignatures[i]
         IN \/ i = 1 /\ IsValidRevocation(sig) /\ sig.created = last.date
            \/ Contains(View(last.slot).revocationSignatures, sig) /\ ValidAlone(sig)

\* the entity is what the merge of a source with a revocation signature that
\* is not valid alone, followed by one that is, leaves of a new entity: it
\* holds the second only
C15_Witness ==
  /\ last.op = "update"
  /\ last.err = ""
  /\ Len(View(1).revocationSignatures) = 1
  /\ \E subKey \in Sources :
       /\ Len(subKey.revocationSignatures) = 2
       /\ ~ValidAlone(subKey.revocationSignatures[1])
       /\ ValidAlone(subKey.revocationSignatures[2])
       /\ View(1).revocationSignatures = <<subKey.revocationSignatures[2]>>
       /\ update(NewEntity, subKey, PrimaryKey, now).ent = View(1)

\* the source that carries the one binding signature sig and the key packet kp
SingleBinding(kp, sig) == EntityValue(kp, <<sig>>, <<>>)

\* C16: when the local list holds a binding signature of the issuer of a
\* source signature, the update leaves at that entry the later created of the
\* two: the source signature takes the entry's place if it is strictly newer,
\* otherwise (older or as old) the entry stays and the source signature is
\* discarded; the list keeps its length and its other entries.
C16_LaterOfSameIssuer ==
  \A s \in Updatable : \A sig \in SrcBindingSigs :
      LET local == View(s).bindingSignatures
          r == update(View(s), SingleBinding(View(s).keyPacket, sig), PrimaryKey, now)
      IN \A i \in 1..Len(local) :
           local[i].issuerKeyId = sig.issuerKeyId =>
             /\ r.err = ""
             /\ r.ent.bindingSignatures =
                  IF sig.created > local[i].created
                    THEN [local EXCEPT ![i] = sig]
                    ELSE local

\* an update has just put a newer signature in the place of the entry of its
\* issuer: the entity holds, as its one binding signature, a signature that
\* would not have passed the check made of a signature of a new issuer
C16_Witness ==
  /\ last.op = "update"
  /\ last.err = ""
  /\ Len(View(1).bindingSignatures) = 1
  /\ View(1).bindingSignatures[1].created = 2
  /\ ~Acceptable(View(1).bindingSignatures[1], View(1).keyPacket)

\* the binding signatures of the sources that fail verification and are not
\* marked verified, and the revocation signatures that are not valid alone
FailingBindingSigs ==
  { sig \in SrcBindingSigs : ~sig.verified /\ ~IsValidBinding(sig) }

FailingRevocationSigs == { sig \in SrcRevocationSigs : ~ValidAlone(sig) }

\* C17: with matching fingerprints update never fails because a candidate is
\* rejected: a source binding signature that fails verification, or a source
\* revocation signature that is not valid, is dropped, update returns
\* normally, and the candidate that follows it is processed as it is without
\* the rejected one before it.  revoke fails only for its own reasons.
C17_RejectionNeverFails ==
  /\ last.op = "update" => last.err \in {"", "FingerprintMismatch"}
  /\ last.op = "revoke" => last.err \in {"", "InvalidEnumValue", "SigningFailure"}
  /\ \A s \in Updatable : \A e \in {View(s)} :
       /\ \A f \in FailingBindingSigs : \A v \in SrcBindingSigs :
            ~HoldsIssuerOf(e.bindingSignatures, f) =>
              \A r \in {update(e, EntityValue(e.keyPacket, <<f, v>>, <<>>),
                               PrimaryKey, now)} :
                /\ r.err = ""
                /\ ~Contains(r.ent.bindingSignatures, f)
                /\ r.ent = update(e, EntityValue(e.keyPacket, <<v>>, <<>>),
                                  PrimaryKey, now).ent
       /\ \A f \in FailingRevocationSigs : \A v \in SrcRevocationSigs :
            \A r \in {update(e, EntityValue(e.keyPacket, <<>>, <<f, v>>),
                             PrimaryKey, now)} :
              /\ r.err = ""
              /\ Contains(r.ent.revocationSignatures, f)
                   => Contains(e.revocationSignatures, f)
              /\ r.ent = update(e, EntityValue(e.keyPacket, <<>>, <<v>>),
                                PrimaryKey, now).ent

\* an update has just returned normally that met a binding signature failing
\* verification and, after it, an acceptable one of another issuer: the
\* entity holds the second only
C17_Witness ==
  /\ last.op = "update"
  /\ last.err = ""
  /\ Len(View(1).bindingSignatures) = 1
  /\ \E subKey \in Sources :
       /\ Len(subKey.bindingSignatures) = 2
       /\ subKey.bindingSignatures[1] \in FailingBindingSigs
       /\ Acceptable(subKey.bindingSignatures[2], View(1).keyPacket)
       /\ subKey.bindingSignatures[1].issuerKeyId
            # subKey.bindingSignatures[2].issuerKeyId
       /\ View(1).bindingSignatures = <<subKey.bindingSignatures[2]>>
       /\ update(NewEntity, subKey, PrimaryKey, now).ent = View(1)

\* the sources that carry signatures of both kinds, by fingerprint
SourcesWithBoth ==
  [f \in Fingerprints |->
     { subKey \in SourcesByFingerprint[f] :
         /\ Len(subKey.bindingSignatures) > 0
         /\ Len(subKey.revocationSignatures) > 0 }]

\* C18: within one update the key packet step comes first, every step on a
\* binding signature comes before the first step on a revocation signature,
\* and every check is made against the binding context of the key packet the
\* key packet step left: no step after the first changes the key packet, no
\* step on a revocation signature changes bindingSignatures, no earlier step
\* changes revocationSignatures, and the last step leaves what update leaves.
C18_BindingsBeforeRevocations ==
  \A s \in Updatable : \A subKey \in SourcesWithBoth[View(s).keyPacket.fp] :
    \A e \in {View(s)} :
      \A ev \in {updateEvents(e, subKey, PrimaryKey, now)} :
        \A r \in {update(e, subKey, PrimaryKey, now)} :
         /\ Len(ev) = 1 + Len(subKey.bindingSignatures)
                        + Len(subKey.revocationSignatures)
         /\ ev[1].step = "keyPacket"
         /\ \A k \in 2..Len(ev) : ev[k].step # "keyPacket"
         /\ \A i, j \in 1..Len(ev) :
              (i < j /\ ev[i].step = "revocation") => ev[j].step = "revocation"
         /\ \A k \in 1..Len(ev) :
              /\ ev[k].bind = r.ent.keyPacket
              /\ ev[k].ent.keyPacket = r.ent.keyPacket
              /\ ev[k].step = "revocation"
                   => ev[k].ent.bindingSignatures = r.ent.bindingSignatures
              /\ ev[k].step # "revocation"
                   => ev[k].ent.revocationSignatures = e.revocationSignatures
         /\ ev[Len(ev)].ent = r.ent

\* the entity is what an update left that adopted the secret key packet and
\* accepted a binding and a revocation signature of the source
C18_Witness ==
  /\ last.op = "update"
  /\ last.err = ""
  /\ View(1).keyPacket.tag = "secretSubkey"
  /\ \E subKey \in SourcesWithBoth[1] :
       /\ subKey.keyPacket.tag = "secretSubkey"
       /\ update(NewEntity, subKey, PrimaryKey, now).ent = View(1)
       /\ Len(View(1).bindingSignatures) = 1
       /\ Len(View(1).revocationSignatures) = 1

\* C20: verify and getExpirationTime agree: when verify(primary, d) succeeds,
\* getExpirationTime(primary, d) does not return null and returns a date, or
\* Infinity, strictly later than d.
C20_VerifiedNotYetExpired ==
  WriteState =>
    \A s \in Alive : \A d \in Dates :
      verify(View(s), PrimaryKey, d) = "ok" =>
        /\ getExpirationTime(View(s), PrimaryKey, d) # NullTime
        /\ getExpirationTime(View(s), PrimaryKey, d) > d

\* verify has just succeeded at the last date before the expiration that
\* getExpirationTime gives for the entity
C20_Witness ==
  /\ last.op = "verify"
  /\ last.err = "ok"
  /\ getExpirationTime(View(last.slot), PrimaryKey, last.date) = last.date + 1

\* the step is one of a read operation: one is called, goes on or returns
ReadStep ==
  \/ last'.op \in ReadOps
  \/ \E c \in CallIds :
       /\ calls'[c] # calls[c]
       /\ calls'[c].op \in {"verify", "getExpirationTime"}

\* C19: verify, getExpirationTime and isRevoked change nothing: in none of
\* their steps does the key packet, a signature array or a signature in them
\* change, of any entity.  The calls made while others of them are in flight
\* on the entity therefore return what they return when run alone: what
\* verify, getExpirationTime and isRevoked give for the entity as it stands.
C19_ReadsChangeNothing ==
  [][ ReadStep =>
        /\ ents' = ents
        /\ heap' = heap
        /\ last'.op = "verify" =>
             last'.err = verify(Before(last'.slot), PrimaryKey, last'.date)
        /\ last'.op = "getExpirationTime" =>
             last'.time = getExpirationTime(Before(last'.slot), PrimaryKey, last'.date)
        /\ last'.op = "isRevoked" =>
             (last'.err = "true") =
               isRevoked(Before(last'.slot), PrimaryKey, NullSig, NullKey, last'.date) ]_vars

\* verify has just succeeded while a getExpirationTime called before it
\* returned is in flight on the same entity, which holds binding signatures
\* the primary key did and did not make
C19_Witness ==
  /\ last.op = "verify"
  /\ last.err = "ok"
  /\ \E c \in CallIds :
       calls[c].op = "getExpirationTime" /\ calls[c].slot = last.slot
  /\ \E i, j \in 1..Len(View(last.slot).bindingSignatures) :
       /\ IsValidBinding(View(last.slot).bindingSignatures[i])
       /\ ~IsValidBinding(View(last.slot).bindingSignatures[j])

====
